---- MODULE Spec2Model ----
(***************************************************************************)
(* Ownership / ACL restoration of the storage package.                     *)
(*                                                                         *)
(* Three build variants of SetFileUserGroup are modelled:                  *)
(*   "windows"  storage/fs_windows.go  (MetadataManager, ancestor walk)    *)
(*   "winv1"    the earlier windows variant (EnableProcessPrivileges,      *)
(*              one SetNamedSecurityInfo call on the target only)          *)
(*   "linux"    storage/fs_linux.go    (strconv.Atoi + os.Lchown)          *)
(* A behaviour is one process run on one platform: every caller (thread)   *)
(* performs one SetFileUserGroup call; calls interleave at the shared      *)
(* state (the metadataManager singleton, its lock, the processed-file map, *)
(* the file system).                                                       *)
(*                                                                         *)
(* SetFileTime / GetFileTime are modelled under SpecTime: one caller makes *)
(* a bounded number of sequential SetFileTime calls on one file, on one of *)
(* the variants "windows" (fs_windows.go), "linux" (fs_linux.go) and       *)
(* "winv0" (the earliest windows variant with two time arguments).         *)
(***************************************************************************)
EXTENDS Integers, Sequences, FiniteSets, TLC

(***************************************************************************)
(* Bounds of the model.                                                    *)
(***************************************************************************)
\* number of native calls / privilege acquisitions that may fail in a run
MaxFaults == 1

\* the concurrent callers of SetFileUserGroup: two threads, the concurrency
\* the scenarios of the specification are about
Callers == {1, 2}
\* every caller can at most create one MetadataManager
Managers == Callers
NoManager == 0          \* the nil *MetadataManager
NoCaller == 0           \* an unlocked sync.Mutex

(***************************************************************************)
(* Paths.  A path is the sequence of its elements; the first element is    *)
(* the anchor: "\\" (rooted), "C:\\" (drive root) or "." (relative).       *)
(***************************************************************************)
ROOT == <<"\\">>
SLASH == <<"/">>
DOT == <<".">>

Files ==
  { <<"\\", "a", "b", "c.txt">>,     \* \a\b\c.txt
    <<"\\", "a", "b", "d.txt">>,     \* \a\b\d.txt
    <<"C:\\", "e.txt">>,             \* C:\e.txt
    <<".", "r", "f.txt">> }          \* r\f.txt

\* filepath.Dir on a cleaned path: drop the last element; a root and "."
\* are their own parent.
Dir(p) == IF Len(p) = 1 THEN p ELSE SubSeq(p, 1, Len(p) - 1)

RECURSIVE DirClosure(_)
DirClosure(p) == IF Dir(p) = p THEN {p} ELSE {p} \cup DirClosure(Dir(p))

AllPaths == UNION { DirClosure(f) : f \in Files }

\* anchors: the file system roots and the current-directory marker
IsAnchor(p) == Len(p) = 1

\* the ancestor directories of p strictly below its anchor
StrictAncestors(p) == { q \in DirClosure(p) : q # p /\ ~IsAnchor(q) }

(***************************************************************************)
(* Identity strings, as sequences of characters.                           *)
(***************************************************************************)
Digits == {"0", "1", "2", "3", "4", "5", "6", "7", "8", "9"}

DigitVal(ch) ==
  CASE ch = "0" -> 0 [] ch = "1" -> 1 [] ch = "2" -> 2 [] ch = "3" -> 3
    [] ch = "4" -> 4 [] ch = "5" -> 5 [] ch = "6" -> 6 [] ch = "7" -> 7
    [] ch = "8" -> 8 [] ch = "9" -> 9

EMPTY == <<>>
ID_1000 == <<"1", "0", "0", "0">>
ID_1001 == <<"1", "0", "0", "1">>
ID_SID == <<"S", "-", "1", "-", "5">>
ID_NAME == <<"b", "o", "b">>
ID_BAD == <<"n", "a", "n">>

\* (userId, groupId) pairs handed to SetFileUserGroup
IdPairs ==
  { <<EMPTY, EMPTY>>,
    <<ID_SID, ID_SID>>, <<ID_NAME, ID_SID>>,
    <<ID_SID, EMPTY>>, <<EMPTY, ID_SID>>,
    <<ID_BAD, ID_SID>>, <<ID_SID, ID_BAD>>,
    <<ID_1000, ID_1001>>, <<ID_1000, EMPTY>>, <<ID_1000, ID_BAD>> }

\* strconv.Atoi: optional sign, then one or more decimal digits
RECURSIVE DecimalValue(_, _)
DecimalValue(s, acc) ==
  IF s = <<>> THEN acc ELSE DecimalValue(Tail(s), 10 * acc + DigitVal(Head(s)))

Atoi(s) ==
  LET body == IF s # <<>> /\ Head(s) \in {"+", "-"} THEN Tail(s) ELSE s
      neg == s # <<>> /\ Head(s) = "-"
  IN  IF body # <<>> /\ \A i \in 1 .. Len(body) : body[i] \in Digits
      THEN [ok |-> TRUE,
            val |-> IF neg THEN 0 - DecimalValue(body, 0) ELSE DecimalValue(body, 0)]
      ELSE [ok |-> FALSE, val |-> 0]

\* windows.StringToSid: "S-" followed by digit groups separated by "-"
WellFormedSid(s) ==
  /\ Len(s) >= 3
  /\ s[1] = "S" /\ s[2] = "-"
  /\ \A i \in 3 .. Len(s) : s[i] \in Digits \cup {"-"}
  /\ s[3] \in Digits /\ s[Len(s)] \in Digits

\* windows.LookupSID: the accounts the directory resolves
NIL_SID == <<>>
BOB_SID == <<"S", "-", "1", "-", "9">>
LookupSID(name) ==
  IF name = ID_NAME THEN [ok |-> TRUE, sid |-> BOB_SID]
  ELSE [ok |-> FALSE, sid |-> NIL_SID]

\* StringAsSid: parse as a SID; when the string is no well-formed SID fall
\* back to an account lookup; both failing is InvalidOwnershipFormatError.
StringAsSidMutNoError(principal) == [ok |-> TRUE, sid |-> principal]
StringAsSid(principal) ==
  IF WellFormedSid(principal) THEN [ok |-> TRUE, sid |-> principal]
  ELSE LookupSID(principal)

(***************************************************************************)
(* State.                                                                  *)
(***************************************************************************)
VARIABLES
  platform,         \* the build variant of this run
  th,               \* per caller: position and locals of its call
  metadataManager,  \* the package-level *MetadataManager (NoManager = nil)
  lock,             \* the package-level mutex guarding the singleton
  processedFiles,   \* per manager: MetadataManager.processedFiles (key set)
  metadataLock,     \* per manager: MetadataManager.metadataLock (holder)
  procPriv,         \* winv1: the process token has the privileges enabled
  owner, group,     \* security descriptor owner / primary group per path
  dacl,             \* discretionary access list per path (set of entries)
  daclProtected,    \* the DACL of the path is protected (not inheriting)
  uidOf, gidOf,     \* POSIX owner uid / gid per path
  gatePass,         \* per path: times Perform passed check-and-record
  nativeCalls,      \* per path: times the native owner write was invoked
  mutated,          \* paths whose native owner write succeeded
  faults,           \* failures of native calls injected so far
  tm                \* the SetFileTime caller: variant, position, locals, file times

vars == << platform, th, metadataManager, lock, processedFiles, metadataLock,
           procPriv, owner, group, dacl, daclProtected, uidOf, gidOf,
           gatePass, nativeCalls, mutated, faults, tm >>

shared == << metadataManager, lock, processedFiles, metadataLock >>
winfs == << owner, group, dacl, daclProtected >>
posixfs == << uidOf, gidOf >>
history == << gatePass, nativeCalls, mutated >>

Platforms == {"windows", "winv1", "linux"}

\* owner / group / access list of every path before the run
INIT_SID == <<"S", "-", "1", "-", "0">>
INIT_ACE == [kind |-> "allow", sid |-> INIT_SID, mask |-> "full"]

\* error values returned by SetFileUserGroup
OK == "nil"
InvalidOwnershipFormat == "InvalidOwnershipFormatError"
PrivilegeError == "privilege error"
NativeError == "native error"

Merge(old, new) ==
  [k \in DOMAIN old |-> IF k \in DOMAIN new THEN new[k] ELSE old[k]]

(***************************************************************************)
(* Times.  A time.Time is [zero, ns]: zero is IsZero(), ns the nanoseconds *)
(* since the Unix epoch of a non-zero Time.  The stamps of a file are kept *)
(* in the unit of its file system.                                         *)
(***************************************************************************)
\* number of sequential SetFileTime calls of a run
MaxTimeCalls == 2

ZeroTime == [zero |-> TRUE, ns |-> 0]
Instant(n) == [zero |-> FALSE, ns |-> n]
IsZero(t) == t.zero

\* the time arguments of the model: absent, 1s+150ns, 2s+300ns
TimeArgs == {ZeroTime, Instant(1000000150), Instant(2000000300)}

\* Time.UnixNano: for the zero Time (year 1) the int64 result wraps to
\* -6795364578871345152; the model keeps a negative stand-in for it that
\* is no instant of the model
ZeroTimeUnixNano == 0 - 679536478
UnixNano(t) == IF t.zero THEN ZeroTimeUnixNano ELSE t.ns

\* Time.Nanosecond: the nanosecond offset within the second
Nanosecond(t) == IF t.zero THEN 0 ELSE t.ns % 1000000000

\* int64 division truncates toward zero
TruncDiv(x, d) == IF x >= 0 THEN x \div d ELSE 0 - ((0 - x) \div d)

\* syscall.NsecToFiletime: 100 ns ticks; the Filetime is kept relative to
\* the Unix epoch (the code adds 116444736000000000 ticks, the distance of
\* 1601 from 1970, and Filetime.Nanoseconds subtracts it again)
NsecToFiletime(nsec) == TruncDiv(nsec, 100)
\* Filetime.Nanoseconds
FiletimeNanoseconds(ft) == ft * 100

TimeVariants == {"windows", "linux", "winv0"}
\* the variants whose SetFileTime takes access, modification and creation
TripleVariants == {"windows", "linux"}

\* the stamps of the file before the run, in the unit the file system
\* stores: nanoseconds on linux, 100 ns ticks on windows
InitFileTimes(v) ==
  IF v = "linux"
    THEN [atime |-> 500000000, mtime |-> 600000000, ctime |-> 700000000]
    ELSE [atime |-> 5000000, mtime |-> 6000000, ctime |-> 7000000]
\* the inode change time the kernel stamps when the times are changed
ChangeTimeNow == 2100000000

\* GetFileTime: the stamps of the file as time.Time values (the earliest
\* windows variant returns creation and modification only; its access
\* field is kept for uniformity)
GetFileTime(v, file) ==
  IF v = "linux"
    THEN [a |-> Instant(file.atime), m |-> Instant(file.mtime), c |-> Instant(file.ctime)]
    ELSE [a |-> Instant(FiletimeNanoseconds(file.atime)),
          m |-> Instant(FiletimeNanoseconds(file.mtime)),
          c |-> Instant(FiletimeNanoseconds(file.ctime))]

\* fs_windows.go SetFileTime: the else-if chain re-reads the first absent
\* field only
WindowsReread(a, m, c, cur) ==
  IF IsZero(a) THEN [a |-> cur.a, m |-> m, c |-> c]
  ELSE IF IsZero(m) THEN [a |-> a, m |-> cur.m, c |-> c]
  ELSE IF IsZero(c) THEN [a |-> a, m |-> m, c |-> cur.c]
  ELSE [a |-> a, m |-> m, c |-> c]

\* fs_linux.go SetFileTime: two independent ifs
LinuxRereadMutNoFill(a, m, c, cur) == [a |-> a, m |-> m, c |-> c]
LinuxReread(a, m, c, cur) ==
  [a |-> IF IsZero(a) THEN cur.a ELSE a,
   m |-> IF IsZero(m) THEN cur.m ELSE m,
   c |-> c]

\* the fast return of SetFileTime
ReturnsFast(v, a, m, c) ==
  CASE v = "windows" -> IsZero(a) /\ IsZero(m) /\ IsZero(c)
    [] v = "linux"   -> IsZero(a) /\ IsZero(m)
    [] OTHER         -> FALSE

\* whether the call re-reads the file before the write
NeedsReread(v, a, m, c) ==
  CASE v = "windows" -> IsZero(a) \/ IsZero(m) \/ IsZero(c)
    [] v = "linux"   -> IsZero(a) \/ IsZero(m)
    [] OTHER         -> FALSE

\* the stamps the native write leaves on the file
NativeWrite(v, a, m, c) ==
  CASE v = "windows" ->
         [ctime |-> NsecToFiletime(UnixNano(c)),
          atime |-> NsecToFiletime(UnixNano(a)),
          mtime |-> NsecToFiletime(UnixNano(m))]
    [] v = "linux" ->
         [atime |-> UnixNano(a), mtime |-> UnixNano(m), ctime |-> ChangeTimeNow]
    [] OTHER ->
         [ctime |-> NsecToFiletime(Nanosecond(c)),
          atime |-> NsecToFiletime(Nanosecond(m)),
          mtime |-> NsecToFiletime(Nanosecond(m))]

NoTimes == [a |-> ZeroTime, m |-> ZeroTime, c |-> ZeroTime]

TmStart(v) ==
  [ variant |-> v, pc |-> "idle", a |-> ZeroTime, m |-> ZeroTime, c |-> ZeroTime,
    argA |-> ZeroTime, argM |-> ZeroTime, argC |-> ZeroTime,
    file |-> InitFileTimes(v), pre |-> InitFileTimes(v), got |-> NoTimes,
    writes |-> 0, preWrites |-> 0, result |-> "nil", calls |-> 0 ]

\* the SetFileTime caller is absent from the ownership runs
TmOff == [TmStart("windows") EXCEPT !.variant = "off", !.pc = "off"]

InitThread ==
  [ pc |-> "idle", filename |-> DOT, userId |-> EMPTY, groupId |-> EMPTY,
    uidSid |-> NIL_SID, gidSid |-> NIL_SID, uid |-> 0, gid |-> 0,
    phase |-> "target", parentDir |-> DOT, mgr |-> NoManager,
    \* the caller read the manager pointer without synchronisation and no
    \* lock operation has yet ordered it after the manager's creation
    stale |-> FALSE,
    sdDacl |-> {}, result |-> OK, priv |-> 0,
    \* history of the call
    enabled |-> 0, disabled |-> 0, bodyRan |-> FALSE,
    touched |-> {}, marked |-> {}, failedNative |-> FALSE ]

OwnershipInit ==
  /\ platform \in Platforms
  /\ th = [c \in Callers |-> InitThread]
  /\ metadataManager = NoManager
  /\ lock = NoCaller
  /\ processedFiles = [m \in Managers |-> {}]
  /\ metadataLock = [m \in Managers |-> NoCaller]
  /\ procPriv = FALSE
  /\ owner = [p \in AllPaths |-> INIT_SID]
  /\ group = [p \in AllPaths |-> INIT_SID]
  /\ dacl = [p \in AllPaths |-> {INIT_ACE}]
  /\ daclProtected = [p \in AllPaths |-> TRUE]
  /\ uidOf = [p \in AllPaths |-> 0]
  /\ gidOf = [p \in AllPaths |-> 0]
  /\ gatePass = [p \in AllPaths |-> 0]
  /\ nativeCalls = [p \in AllPaths |-> 0]
  /\ mutated = {}
  /\ faults = 0

Init == OwnershipInit /\ tm = TmOff

\* a native call or a privilege acquisition may fail
MayFail == faults < MaxFaults

Put(c, t) == th' = [th EXCEPT ![c] = t]

(***************************************************************************)
(* Privilege scopes.  winio.RunWithPrivileges(names, fn) enables the       *)
(* privileges for the calling thread, runs fn and releases them when fn    *)
(* has returned; when enabling fails it returns the error without running  *)
(* fn and without releasing anything.  winv1 uses the process-wide         *)
(* EnableProcessPrivileges with a deferred DisableProcessPrivileges.       *)
(***************************************************************************)
AcquirePrivileges(t) ==
  Merge(t, [priv |-> t.priv + 1, enabled |-> t.enabled + 1])

ReleasePrivilegesMutLeak(t) == t
ReleasePrivileges(t) ==
  Merge(t, [priv |-> t.priv - 1, disabled |-> t.disabled + 1])

\* the call returns res to its caller
Return(t, res) == Merge(t, [pc |-> "done", result |-> res])

\* the function literal handed to the outer RunWithPrivileges returns res:
\* the scope is released, then SetFileUserGroup returns res
FnReturn(t, res) == Return(ReleasePrivileges(t), res)

(***************************************************************************)
(* linux: SetFileUserGroup = Atoi(userId), Atoi(groupId), os.Lchown.       *)
(***************************************************************************)
LinuxSetFileUserGroup(c) ==
  /\ platform = "linux"
  /\ th[c].pc = "idle"
  /\ \E f \in Files, ids \in IdPairs :
       LET t0 == Merge(th[c], [filename |-> f, userId |-> ids[1], groupId |-> ids[2]])
           u == Atoi(ids[1])
           g == Atoi(ids[2])
       IN  Put(c, IF ~u.ok THEN Return(t0, InvalidOwnershipFormat)
                  ELSE IF ~g.ok THEN Return(Merge(t0, [uid |-> u.val]), InvalidOwnershipFormat)
                  ELSE Merge(t0, [uid |-> u.val, gid |-> g.val, pc |-> "lchown"]))
  /\ UNCHANGED << tm, platform, shared, procPriv, winfs, posixfs, history, faults >>

\* os.Lchown(filename, uid, gid); an id of -1 leaves that axis unchanged
LinuxLchown(c) ==
  /\ platform = "linux"
  /\ th[c].pc = "lchown"
  /\ LET t == th[c]
         f == t.filename
     IN  /\ nativeCalls' = [nativeCalls EXCEPT ![f] = @ + 1]
         /\ \/ /\ MayFail
               /\ faults' = faults + 1
               /\ Put(c, Return(Merge(t, [touched |-> t.touched \cup {f},
                                           failedNative |-> TRUE]), NativeError))
               /\ UNCHANGED << posixfs, mutated >>
            \/ /\ uidOf' = [uidOf EXCEPT ![f] = IF t.uid = -1 THEN @ ELSE t.uid]
               /\ gidOf' = [gidOf EXCEPT ![f] = IF t.gid = -1 THEN @ ELSE t.gid]
               /\ mutated' = mutated \cup {f}
               /\ Put(c, Return(Merge(t, [touched |-> t.touched \cup {f}]), OK))
               /\ UNCHANGED faults
  /\ UNCHANGED << tm, platform, shared, procPriv, winfs, gatePass >>

(***************************************************************************)
(* winv1: the earlier windows SetFileUserGroup.                            *)
(***************************************************************************)
V1SetFileUserGroup(c) ==
  /\ platform = "winv1"
  /\ th[c].pc = "idle"
  /\ \E f \in Files, ids \in IdPairs :
       LET t0 == Merge(th[c], [filename |-> f, userId |-> ids[1], groupId |-> ids[2]])
       IN  Put(c, IF ids[1] = EMPTY \/ ids[2] = EMPTY
                  THEN Return(t0, InvalidOwnershipFormat)
                  ELSE Merge(t0, [pc |-> "v1_enable"]))
  /\ UNCHANGED << tm, platform, shared, procPriv, winfs, posixfs, history, faults >>

\* winio.EnableProcessPrivileges; on success DisableProcessPrivileges is deferred
V1Enable(c) ==
  /\ platform = "winv1"
  /\ th[c].pc = "v1_enable"
  /\ \/ /\ MayFail
        /\ faults' = faults + 1
        /\ Put(c, Return(th[c], PrivilegeError))
        /\ UNCHANGED procPriv
     \/ /\ procPriv' = TRUE
        /\ Put(c, Merge(AcquirePrivileges(th[c]), [pc |-> "v1_translate", bodyRan |-> TRUE]))
        /\ UNCHANGED faults
  /\ UNCHANGED << tm, platform, shared, winfs, posixfs, history >>

V1Translate(c) ==
  /\ platform = "winv1"
  /\ th[c].pc = "v1_translate"
  /\ LET t == th[c]
         u == StringAsSid(t.userId)
         g == StringAsSid(t.groupId)
         bad == (t.userId # EMPTY /\ ~u.ok) \/ (t.groupId # EMPTY /\ ~g.ok)
     IN  /\ Put(c, IF bad THEN FnReturn(t, InvalidOwnershipFormat)
                   ELSE Merge(t, [uidSid |-> IF t.userId # EMPTY THEN u.sid ELSE NIL_SID,
                                  gidSid |-> IF t.groupId # EMPTY THEN g.sid ELSE NIL_SID,
                                  pc |-> "v1_owner"]))
         /\ procPriv' = IF bad THEN FALSE ELSE procPriv
  /\ UNCHANGED << tm, platform, shared, winfs, posixfs, history, faults >>

\* windows.SetNamedSecurityInfo(filename, OWNER_SECURITY_INFORMATION, uidSid, gidSid)
V1SetOwner(c) ==
  /\ platform = "winv1"
  /\ th[c].pc = "v1_owner"
  /\ LET t == Merge(th[c], [touched |-> th[c].touched \cup {th[c].filename}])
         f == t.filename
     IN  /\ nativeCalls' = [nativeCalls EXCEPT ![f] = @ + 1]
         /\ procPriv' = FALSE
         /\ \/ /\ MayFail
               /\ faults' = faults + 1
               /\ Put(c, FnReturn(Merge(t, [failedNative |-> TRUE]), NativeError))
               /\ UNCHANGED << winfs, mutated >>
            \/ /\ owner' = [owner EXCEPT ![f] = IF t.uidSid = NIL_SID THEN @ ELSE t.uidSid]
               /\ mutated' = mutated \cup {f}
               /\ Put(c, FnReturn(t, OK))
               /\ UNCHANGED << group, dacl, daclProtected, faults >>
  /\ UNCHANGED << tm, platform, shared, posixfs, gatePass >>

(***************************************************************************)
(* windows: SetFileUserGroup with the MetadataManager.                     *)
(***************************************************************************)
\* lines 173-175: both ids empty is a successful no-op
SetFileUserGroup(c) ==
  /\ platform = "windows"
  /\ th[c].pc = "idle"
  /\ \E f \in Files, ids \in IdPairs :
       LET t0 == Merge(th[c], [filename |-> f, userId |-> ids[1], groupId |-> ids[2]])
       IN  Put(c, IF ids[1] = EMPTY /\ ids[2] = EMPTY
                  THEN Return(t0, OK)
                  ELSE Merge(t0, [pc |-> "enter"]))
  /\ UNCHANGED << tm, platform, shared, procPriv, winfs, posixfs, history, faults >>

\* line 179: the outer winio.RunWithPrivileges enables the privileges
RunWithPrivileges(c) ==
  /\ platform = "windows"
  /\ th[c].pc = "enter"
  /\ \/ /\ MayFail
        /\ faults' = faults + 1
        /\ Put(c, Return(th[c], PrivilegeError))
     \/ /\ Put(c, Merge(AcquirePrivileges(th[c]), [pc |-> "translate", bodyRan |-> TRUE]))
        /\ UNCHANGED faults
  /\ UNCHANGED << tm, platform, shared, procPriv, winfs, posixfs, history >>

\* lines 181-195: StringAsSid on each non-empty id
TranslateIds(c) ==
  /\ platform = "windows"
  /\ th[c].pc = "translate"
  /\ LET t == th[c]
         u == StringAsSid(t.userId)
         g == StringAsSid(t.groupId)
         bad == (t.userId # EMPTY /\ ~u.ok) \/ (t.groupId # EMPTY /\ ~g.ok)
     IN  Put(c, IF bad THEN FnReturn(t, InvalidOwnershipFormat)
                ELSE Merge(t, [uidSid |-> IF t.userId # EMPTY THEN u.sid ELSE NIL_SID,
                               gidSid |-> IF t.groupId # EMPTY THEN g.sid ELSE NIL_SID,
                               pc |-> "gm_check"]))
  /\ UNCHANGED << tm, platform, shared, procPriv, winfs, posixfs, history, faults >>

(***************************************************************************)
(* GetMetadataManager: double-checked creation of the singleton.  The      *)
(* first check reads metadataManager without holding lock: the read races  *)
(* with the write at line 37 and yields nil or the pointer written.        *)
(***************************************************************************)
\* the gate lock of manager m was never released: every Perform adds a
\* path or finds one, so the map is empty until the first Perform is over.
\* Locking the gate after a release orders the caller after the creation.
NeverReleased(m) == processedFiles[m] = {}

GetMetadataManagerCheck(c) ==
  /\ platform = "windows"
  /\ th[c].pc = "gm_check"
  /\ \/ \* the unsynchronised read sees nil
        Put(c, Merge(th[c], [pc |-> "gm_lock"]))
     \/ \* the unsynchronised read sees the manager: return it.  Nothing
        \* orders this read after the writes of lines 37-40, so the
        \* fields of the manager may still read as zero
        /\ metadataManager # NoManager
        /\ Put(c, Merge(th[c], [mgr |-> metadataManager, phase |-> "target",
                                stale |-> NeverReleased(metadataManager),
                                pc |-> "perform"]))
  /\ UNCHANGED << tm, platform, shared, procPriv, winfs, posixfs, history, faults >>

MutexFreeMutAlways(holder) == TRUE
MutexFree(holder) == holder = NoCaller

\* line 34: lock.Lock()
GetMetadataManagerLock(c) ==
  /\ platform = "windows"
  /\ th[c].pc = "gm_lock"
  /\ MutexFree(lock)
  /\ lock' = c
  /\ Put(c, Merge(th[c], [pc |-> "gm_init"]))
  /\ UNCHANGED << tm, platform, metadataManager, processedFiles, metadataLock,
                  procPriv, winfs, posixfs, history, faults >>

\* the managers created so far are 1 .. the highest one in use
NewManager ==
  IF metadataManager = NoManager THEN 1 ELSE metadataManager + 1

NeedsCreateMutAlways(m) == TRUE
NeedsCreate(m) == m = NoManager

\* lines 36-44: second check, creation, deferred unlock, return
GetMetadataManagerInit(c) ==
  /\ platform = "windows"
  /\ th[c].pc = "gm_init"
  /\ LET m == IF NeedsCreate(metadataManager) THEN NewManager ELSE metadataManager
     IN  /\ metadataManager' = m
         /\ processedFiles' = IF NeedsCreate(metadataManager)
                              THEN [processedFiles EXCEPT ![m] = {}]
                              ELSE processedFiles
         /\ metadataLock' = IF NeedsCreate(metadataManager)
                            THEN [metadataLock EXCEPT ![m] = NoCaller]
                            ELSE metadataLock
         /\ Put(c, Merge(th[c], [mgr |-> m, phase |-> "target", pc |-> "perform"]))
  /\ lock' = NoCaller
  /\ UNCHANGED << tm, platform, procPriv, winfs, posixfs, history, faults >>

(***************************************************************************)
(* The ancestor walk of SetFileUserGroup (lines 198-223):                  *)
(*   Perform(filename); parentDir := Dir(filename)                         *)
(*   for parentDir is no stop marker { Perform(parentDir);                 *)
(*        nextPath := Dir(parentDir); if nextPath == parentDir { break }   *)
(*        parentDir = nextPath }                                           *)
(*   Perform(parentDir); return nil                                        *)
(* phase is the Perform call the caller is in: "target" (line 198),        *)
(* "loop" (line 206) or "tail" (line 218).                                 *)
(***************************************************************************)
\* line 205: the loop condition
LoopCondMutStopEarly(p) == FALSE
LoopCond(p) == p # DOT /\ p # SLASH /\ p # ROOT

\* the Perform call that follows a Perform call that returned nil
WalkNext(phase, file, pDir) ==
  CASE phase = "target" ->
         [phase |-> IF LoopCond(Dir(file)) THEN "loop" ELSE "tail",
          parentDir |-> Dir(file)]
    [] phase = "loop" ->
         IF Dir(pDir) = pDir
         THEN [phase |-> "tail", parentDir |-> pDir]
         ELSE [phase |-> IF LoopCond(Dir(pDir)) THEN "loop" ELSE "tail",
               parentDir |-> Dir(pDir)]
    [] OTHER -> [phase |-> "return", parentDir |-> pDir]

\* the filename argument of the Perform call the caller is in
PerformArg(t) == IF t.phase = "target" THEN t.filename ELSE t.parentDir

\* Perform returned nil: go on with the walk, or return nil at line 223
PerformReturnsNil(t) ==
  LET w == WalkNext(t.phase, t.filename, t.parentDir)
  IN  IF w.phase = "return" THEN FnReturn(t, OK)
      ELSE Merge(t, [phase |-> w.phase, parentDir |-> w.parentDir, pc |-> "perform"])

\* Perform returned err: lines 199-201, 207-209, 219-221
PerformReturnsErrMutContinue(t, err) == PerformReturnsNil(t)
PerformReturnsErr(t, err) == FnReturn(t, err)

(***************************************************************************)
(* MetadataManager.Perform (lines 47-95).                                  *)
(***************************************************************************)
\* line 48: m.metadataLock.Lock()
PerformLock(c) ==
  /\ platform = "windows"
  /\ th[c].pc = "perform"
  /\ MutexFree(metadataLock[th[c].mgr])
  /\ metadataLock' = [metadataLock EXCEPT ![th[c].mgr] = c]
  /\ Put(c, Merge(th[c], [stale |-> th[c].stale /\ NeverReleased(th[c].mgr),
                          pc |-> "p_check"]))
  /\ UNCHANGED << tm, platform, metadataManager, lock, processedFiles,
                  procPriv, winfs, posixfs, history, faults >>

\* line 50: the path is a key of processedFiles
AlreadyProcessed(m, p) == p \in processedFiles[m]

\* lines 50-52: already processed: deferred unlock, return nil
PerformCheck(c) ==
  /\ platform = "windows"
  /\ th[c].pc = "p_check"
  /\ IF AlreadyProcessed(th[c].mgr, PerformArg(th[c]))
     THEN /\ metadataLock' = [metadataLock EXCEPT ![th[c].mgr] = NoCaller]
          /\ Put(c, PerformReturnsNil(th[c]))
     ELSE /\ Put(c, Merge(th[c], [pc |-> "p_mark"]))
          /\ UNCHANGED metadataLock
  /\ UNCHANGED << tm, platform, metadataManager, lock, processedFiles,
                  procPriv, winfs, posixfs, history, faults >>

\* line 54: m.processedFiles[filename] = true
RecordProcessedMutSkip(files, p) == files
RecordProcessed(files, p) == files \cup {p}

PerformMark(c) ==
  /\ platform = "windows"
  /\ th[c].pc = "p_mark"
  /\ LET t == th[c]
         p == PerformArg(t)
     IN  /\ processedFiles' = [processedFiles EXCEPT ![t.mgr] = RecordProcessed(@, p)]
         /\ gatePass' = [gatePass EXCEPT ![p] = @ + 1]
         /\ Put(c, Merge(t, [marked |-> t.marked \cup {p}, stale |-> FALSE,
                             pc |-> "p_enable"]))
  /\ UNCHANGED << tm, platform, metadataManager, lock, metadataLock, procPriv,
                  winfs, posixfs, nativeCalls, mutated, faults >>

\* line 54 for a caller whose unsynchronised read of the manager is not
\* ordered after its creation and that reads processedFiles as the nil map
\* of the zeroed struct: the assignment panics ("assignment to entry in nil
\* map"); no recover exists, the process ends with every call in it
PerformMarkNilMap(c) ==
  /\ platform = "windows"
  /\ th[c].pc = "p_mark"
  /\ th[c].stale
  /\ th' = [d \in Callers |-> Merge(th[d], [pc |-> "crashed"])]
  /\ UNCHANGED << tm, platform, shared, procPriv, winfs, posixfs, history, faults >>

\* Perform returns err from inside its RunWithPrivileges: inner scope
\* released, metadataLock unlocked (deferred), then the walk returns err
PerformFails(t, err) == PerformReturnsErr(ReleasePrivileges(t), err)

\* line 58: the inner winio.RunWithPrivileges enables the privileges
PerformEnable(c) ==
  /\ platform = "windows"
  /\ th[c].pc = "p_enable"
  /\ \/ /\ MayFail
        /\ faults' = faults + 1
        /\ metadataLock' = [metadataLock EXCEPT ![th[c].mgr] = NoCaller]
        /\ Put(c, PerformReturnsErr(th[c], PrivilegeError))
     \/ /\ Put(c, Merge(AcquirePrivileges(th[c]), [pc |-> "p_owner"]))
        /\ UNCHANGED << metadataLock, faults >>
  /\ UNCHANGED << tm, platform, metadataManager, lock, processedFiles,
                  procPriv, winfs, posixfs, history >>

\* line 61: SetNamedSecurityInfo(filename, OWNER_SECURITY_INFORMATION,
\* uidSid, gidSid, nil, nil): only the owner is selected for writing, the
\* group is not; with a nil uidSid a successful call leaves the owner as it is
PerformSetOwner(c) ==
  /\ platform = "windows"
  /\ th[c].pc = "p_owner"
  /\ LET p == PerformArg(th[c])
         t == Merge(th[c], [touched |-> th[c].touched \cup {p}])
     IN  /\ nativeCalls' = [nativeCalls EXCEPT ![p] = @ + 1]
         /\ \/ /\ MayFail
               /\ faults' = faults + 1
               /\ metadataLock' = [metadataLock EXCEPT ![t.mgr] = NoCaller]
               /\ Put(c, PerformFails(Merge(t, [failedNative |-> TRUE]), NativeError))
               /\ UNCHANGED << owner, mutated >>
            \/ /\ owner' = [owner EXCEPT ![p] = IF t.uidSid = NIL_SID THEN @ ELSE t.uidSid]
               /\ mutated' = mutated \cup {p}
               /\ Put(c, Merge(t, [pc |-> "p_getdacl"]))
               /\ UNCHANGED << metadataLock, faults >>
  /\ UNCHANGED << tm, platform, metadataManager, lock, processedFiles, procPriv,
                  group, dacl, daclProtected, posixfs, gatePass >>

\* lines 66-75: GetNamedSecurityInfo and sd.DACL()
PerformGetDacl(c) ==
  /\ platform = "windows"
  /\ th[c].pc = "p_getdacl"
  /\ \/ /\ MayFail
        /\ faults' = faults + 1
        /\ metadataLock' = [metadataLock EXCEPT ![th[c].mgr] = NoCaller]
        /\ Put(c, PerformFails(Merge(th[c], [failedNative |-> TRUE]), NativeError))
     \/ /\ Put(c, Merge(th[c], [sdDacl |-> dacl[PerformArg(th[c])], pc |-> "p_setdacl"]))
        /\ UNCHANGED << metadataLock, faults >>
  /\ UNCHANGED << tm, platform, metadataManager, lock, processedFiles,
                  procPriv, winfs, posixfs, history >>

\* lines 77-91: SetNamedSecurityInfo(filename, DACL_SECURITY_INFORMATION |
\* UNPROTECTED_DACL_SECURITY_INFORMATION, nil, nil, dacl, nil)
PerformSetDacl(c) ==
  /\ platform = "windows"
  /\ th[c].pc = "p_setdacl"
  /\ LET t == th[c]
         p == PerformArg(t)
     IN  /\ metadataLock' = [metadataLock EXCEPT ![t.mgr] = NoCaller]
         /\ \/ /\ MayFail
               /\ faults' = faults + 1
               /\ Put(c, PerformFails(Merge(t, [failedNative |-> TRUE]), NativeError))
               /\ UNCHANGED << dacl, daclProtected >>
            \/ /\ dacl' = [dacl EXCEPT ![p] = t.sdDacl]
               /\ daclProtected' = [daclProtected EXCEPT ![p] = FALSE]
               /\ Put(c, PerformReturnsNil(ReleasePrivileges(t)))
               /\ UNCHANGED faults
  /\ UNCHANGED << tm, platform, metadataManager, lock, processedFiles, procPriv,
                  owner, group, posixfs, history >>

(***************************************************************************)
(* SetFileTime and GetFileTime                                             *)
(***************************************************************************)
ownership == << platform, th, metadataManager, lock, processedFiles, metadataLock,
                procPriv, owner, group, dacl, daclProtected, uidOf, gidOf,
                gatePass, nativeCalls, mutated, faults >>

TimeReturn(res) == [tm EXCEPT !.pc = "done", !.result = res]

\* SetFileTime(filename, accessTime, modificationTime, creationTime): entry
\* and fast return (the earliest windows variant takes creationTime and
\* modTime only and opens the file first)
TimeSetFileTime ==
  /\ tm.pc \in {"idle", "done", "got"}
  /\ tm.calls < MaxTimeCalls
  /\ \E a \in TimeArgs, m \in TimeArgs, c \in TimeArgs :
       /\ tm.variant = "winv0" => a = ZeroTime
       /\ LET t0 == [tm EXCEPT !.a = a, !.m = m, !.c = c,
                               !.argA = a, !.argM = m, !.argC = c,
                               !.pre = tm.file, !.preWrites = tm.writes,
                               !.got = NoTimes, !.calls = @ + 1]
          IN  tm' = IF ReturnsFast(tm.variant, a, m, c)
                      THEN [t0 EXCEPT !.pc = "done", !.result = OK]
                    ELSE IF NeedsReread(tm.variant, a, m, c)
                      THEN [t0 EXCEPT !.pc = "reread"]
                    ELSE [t0 EXCEPT !.pc = "write"]
  /\ UNCHANGED ownership

\* the GetFileTime calls of SetFileTime: os.Stat fails, or the absent
\* fields the variant re-reads are filled from the file
TimeReread ==
  /\ tm.pc = "reread"
  /\ \/ tm' = TimeReturn(NativeError)
     \/ LET cur == GetFileTime(tm.variant, tm.file)
            f == IF tm.variant = "linux"
                   THEN LinuxReread(tm.a, tm.m, tm.c, cur)
                   ELSE WindowsReread(tm.a, tm.m, tm.c, cur)
        IN  tm' = [tm EXCEPT !.a = f.a, !.m = f.m, !.c = f.c, !.pc = "write"]
  /\ UNCHANGED ownership

\* the native write: syscall.Open + syscall.SetFileTime, or os.Chtimes
TimeWrite ==
  /\ tm.pc = "write"
  /\ \/ tm' = TimeReturn(NativeError)
     \/ tm' = [tm EXCEPT !.file = NativeWrite(tm.variant, tm.a, tm.m, tm.c),
                         !.writes = @ + 1, !.pc = "done", !.result = OK]
  /\ UNCHANGED ownership

\* GetFileTime(filename) after a SetFileTime that returned
TimeGetFileTime ==
  /\ tm.pc = "done"
  /\ tm' = [tm EXCEPT !.got = GetFileTime(tm.variant, tm.file), !.pc = "got"]
  /\ UNCHANGED ownership

TimeInit ==
  /\ OwnershipInit
  /\ \E v \in TimeVariants :
       /\ tm = TmStart(v)
       /\ platform = IF v = "linux" THEN "linux" ELSE "windows"

TimeNext == TimeSetFileTime \/ TimeReread \/ TimeWrite \/ TimeGetFileTime

SpecTime == TimeInit /\ [][TimeNext]_vars

(***************************************************************************)
(* The specification.                                                      *)
(***************************************************************************)
Next ==
  \E c \in Callers :
    \/ LinuxSetFileUserGroup(c) \/ LinuxLchown(c)
    \/ V1SetFileUserGroup(c) \/ V1Enable(c) \/ V1Translate(c) \/ V1SetOwner(c)
    \/ SetFileUserGroup(c) \/ RunWithPrivileges(c) \/ TranslateIds(c)
    \/ GetMetadataManagerCheck(c) \/ GetMetadataManagerLock(c)
    \/ GetMetadataManagerInit(c)
    \/ PerformLock(c) \/ PerformCheck(c) \/ PerformMark(c) \/ PerformMarkNilMap(c)
    \/ PerformEnable(c)
    \/ PerformSetOwner(c) \/ PerformGetDacl(c) \/ PerformSetDacl(c)

Spec == Init /\ [][Next]_vars

(***************************************************************************)
(* Definitions shared by the properties.                                   *)
(***************************************************************************)
Done(c) == th[c].pc = "done"

\* the ProcessedPathSet of the run: the key set of the singleton's map
ProcessedPathSet ==
  IF metadataManager = NoManager THEN {} ELSE processedFiles[metadataManager]

\* no caller holds a gate lock
GateUnlocked == \A m \in Managers : metadataLock[m] = NoCaller

\* the call has a non-empty id, so it propagates
Propagates(c) == ~(th[c].userId = EMPTY /\ th[c].groupId = EMPTY)

\* the target of a call and its ancestor directories below the root
TargetAndAncestors(f) == {f} \cup StrictAncestors(f)

SiblingC == <<"\\", "a", "b", "c.txt">>
SiblingD == <<"\\", "a", "b", "d.txt">>

(***************************************************************************)
(* C1: within one run the native ownership/ACL mutation inside Perform is  *)
(* executed at most once for every path, however many sequential or        *)
(* concurrent calls name the path as target or reach it as an ancestor;    *)
(* two Perform calls on one path never both pass check-and-record.         *)
(***************************************************************************)
C1_AtMostOncePerPath ==
  platform = "windows" =>
    \A p \in AllPaths : gatePass[p] <= 1 /\ nativeCalls[p] <= 1

\* both callers have completed a walk through \a\b, which was applied once
C1_Witness ==
  /\ platform = "windows"
  /\ \A c \in Callers : Done(c) /\ th[c].result = OK /\ Propagates(c)
                        /\ Dir(SiblingC) \in StrictAncestors(th[c].filename)
  /\ nativeCalls[Dir(SiblingC)] = 1

(***************************************************************************)
(* C2: once all calls of a run have returned successfully, the applier     *)
(* has been invoked exactly once on the target of every propagating call   *)
(* and exactly once on each of its ancestor directories, and all of them   *)
(* are in ProcessedPathSet, also for concurrent calls on sibling files.    *)
(***************************************************************************)
C2_ExactlyOnceWhenAllSucceed ==
  (platform = "windows" /\ \A c \in Callers : Done(c) /\ th[c].result = OK) =>
    \A c \in Callers : Propagates(c) =>
      \A p \in TargetAndAncestors(th[c].filename) :
        nativeCalls[p] = 1 /\ p \in mutated /\ p \in ProcessedPathSet

\* the two sibling files of \a\b have both been propagated successfully
C2_Witness ==
  /\ platform = "windows"
  /\ \A c \in Callers : Done(c) /\ th[c].result = OK /\ Propagates(c)
  /\ {th[c].filename : c \in Callers} = {SiblingC, SiblingD}
  /\ \A p \in {SiblingC, SiblingD, Dir(SiblingC), Dir(Dir(SiblingC))} :
       nativeCalls[p] = 1 /\ p \in ProcessedPathSet

(***************************************************************************)
(* C3: the applier is invoked only on the targets of the calls and on      *)
(* their ancestor directories strictly below the root, never on the root   *)
(* (or "."); two calls for \a\b\c.txt and \a\b\d.txt invoke it four times. *)
(***************************************************************************)
RECURSIVE SumCalls(_)
SumCalls(ps) ==
  IF ps = {} THEN 0
  ELSE LET p == CHOOSE q \in ps : TRUE IN nativeCalls[p] + SumCalls(ps \ {p})

C3_NeverOnRoot ==
  platform = "windows" =>
    /\ \A p \in AllPaths : nativeCalls[p] > 0 =>
         \E c \in Callers : th[c].pc # "idle" /\ p \in TargetAndAncestors(th[c].filename)
    /\ ( /\ \A c \in Callers : Done(c) /\ th[c].result = OK /\ Propagates(c)
         /\ {th[c].filename : c \in Callers} = {SiblingC, SiblingD} )
       => SumCalls(AllPaths) = 4

(***************************************************************************)
(* C4: when the native write for a path fails inside Perform the path is   *)
(* marked processed all the same, and a later call that reaches the path   *)
(* skips it: the applier is not invoked on it a second time.               *)
(***************************************************************************)
\* the path the Perform call of a failed caller was applied to
FailedPath(c) == PerformArg(th[c])

C4_FailedPathStaysProcessed ==
  platform = "windows" =>
    \A c \in Callers : (Done(c) /\ th[c].failedNative) =>
      /\ FailedPath(c) \in ProcessedPathSet
      /\ nativeCalls[FailedPath(c)] = 1

\* a caller failed on \a\b at the owner write; the other caller walked
\* through \a\b afterwards and returned nil without applying it again
C4_Witness ==
  /\ platform = "windows"
  /\ \E c, d \in Callers :
       /\ c # d
       /\ Done(c) /\ th[c].failedNative /\ FailedPath(c) = Dir(SiblingC)
       /\ Dir(SiblingC) \notin mutated
       /\ Done(d) /\ th[d].result = OK /\ Propagates(d)
       /\ Dir(SiblingC) \in StrictAncestors(th[d].filename)
       /\ th[d].filename \in th[d].touched
       /\ nativeCalls[Dir(SiblingC)] = 1

(***************************************************************************)
(* C5: whenever the gate lock is not held, every path in ProcessedPathSet  *)
(* is a path on which the native ownership/ACL mutation was performed in   *)
(* this run, and a path once in the set is never removed.                  *)
(***************************************************************************)
C5_OnlyMutatedPaths ==
  [][ /\ (platform' = "windows" /\ GateUnlocked') => ProcessedPathSet' \subseteq mutated'
      /\ ProcessedPathSet \subseteq ProcessedPathSet' ]_vars

\* a call returned an error from inside Perform(p): its privilege
\* acquisition or one of its native calls failed
FailedInPerform(c, p) ==
  /\ Done(c) /\ th[c].bodyRan /\ th[c].mgr # NoManager
  /\ th[c].result \in {PrivilegeError, NativeError}
  /\ PerformArg(th[c]) = p

(***************************************************************************)
(* C5 as amended: whenever the gate lock is not held, every path in        *)
(* ProcessedPathSet passed the gate exactly once and is a path on which    *)
(* the native mutation was performed or on which Perform failed (such a    *)
(* path stays in the set unmutated); a path in the set is never removed.   *)
(***************************************************************************)
C5_MutatedOrFailedPaths ==
  [][ /\ (platform' = "windows" /\ GateUnlocked') =>
           \A p \in ProcessedPathSet' :
             /\ gatePass'[p] = 1
             /\ p \in mutated' \/ \E c \in Callers : FailedInPerform(c, p)'
      /\ ProcessedPathSet \subseteq ProcessedPathSet' ]_vars

\* the set holds a mutated path and a path whose owner write failed
C5_Witness ==
  /\ platform = "windows" /\ GateUnlocked
  /\ \E p, q \in ProcessedPathSet :
       /\ p \in mutated
       /\ q \notin mutated /\ nativeCalls[q] = 1
       /\ \E c \in Callers : FailedInPerform(c, q)

(***************************************************************************)
(* C6: when the owner or the group id fails translation (non-numeric on    *)
(* the UID/GID model; neither a well-formed SID nor a resolvable account   *)
(* on the principal model) SetFileUserGroup returns InvalidOwnershipFormat *)
(* having mutated no path and added none to ProcessedPathSet; "1000"       *)
(* parses to the UID 1000.                                                 *)
(***************************************************************************)
\* identity strings of the model that are no decimal integers
NonNumericIds == {EMPTY, ID_SID, ID_NAME, ID_BAD}
\* non-empty identity strings that are neither a SID nor a known account
UnresolvableIds == {ID_BAD, ID_1000, ID_1001}

\* the call got as far as translating an id that does not translate
TranslationFails(c) ==
  LET t == th[c]
  IN  IF platform = "linux"
      THEN t.pc # "idle" /\ (t.userId \in NonNumericIds \/ t.groupId \in NonNumericIds)
      ELSE t.bodyRan /\ (t.userId \in UnresolvableIds \/ t.groupId \in UnresolvableIds)

C7_PrivilegeFailureBeforeMutation ==
  \A c \in Callers : (Done(c) /\ th[c].result = PrivilegeError) =>
    /\ th[c].disabled <= th[c].enabled
    /\ th[c].touched = {}

(***************************************************************************)
(* C8: every privilege scope a call acquired is released on every exit     *)
(* path: when SetFileUserGroup has returned, with nil or with an error of  *)
(* translation, of the target or of an ancestor, the call holds no         *)
(* privilege it enabled.                                                   *)
(***************************************************************************)
C8_PrivilegesReleasedOnReturn ==
  \A c \in Callers : Done(c) => th[c].priv = 0 /\ th[c].disabled = th[c].enabled

\* a call failed in the native write of an ancestor, inside both scopes
C8_Witness ==
  \E c \in Callers :
    /\ Done(c) /\ th[c].result = NativeError /\ th[c].phase # "target"
    /\ th[c].enabled >= 3 /\ th[c].priv = 0

(***************************************************************************)
(* C9: on every platform variant SetFileUserGroup with both ids empty      *)
(* returns success and is a no-op: no translation error, no privilege      *)
(* acquisition, no applier invocation, ProcessedPathSet unchanged.         *)
(***************************************************************************)
C9_BothEmptyIsNoop ==
  \A c \in Callers : (Done(c) /\ ~Propagates(c)) =>
    /\ th[c].result = OK
    /\ th[c].enabled = 0 /\ th[c].touched = {} /\ th[c].marked = {}

(***************************************************************************)
(* C10: an empty id means "unchanged" for its axis: a call with exactly    *)
(* one id empty and the other valid succeeds when no native call fails,    *)
(* sets the non-empty axis and leaves the other axis of every touched      *)
(* path at its value before the call.                                      *)
(***************************************************************************)
\* ids valid on the platform of the run, and the principal they denote
ValidId(id) ==
  IF platform = "linux" THEN id \in {ID_1000, ID_1001} ELSE id \in {ID_SID, ID_NAME}
PrincipalOf(id) ==
  CASE id = ID_1000 -> 1000 [] id = ID_1001 -> 1001
    [] id = ID_SID -> ID_SID [] id = ID_NAME -> BOB_SID

OwnerAxis(p) == IF platform = "linux" THEN uidOf[p] ELSE owner[p]
GroupAxis(p) == IF platform = "linux" THEN gidOf[p] ELSE group[p]
InitAxis == IF platform = "linux" THEN 0 ELSE INIT_SID

\* checked for a call that ran alone (the other caller has not started)
C10_EmptyAxisUnchanged ==
  \A c \in Callers :
    LET t == th[c]
    IN  ( /\ Done(c) /\ \A d \in Callers \ {c} : th[d].pc = "idle"
          /\ faults = 0
          /\ \/ t.userId = EMPTY /\ ValidId(t.groupId)
             \/ t.groupId = EMPTY /\ ValidId(t.userId) )
        => /\ t.result = OK
           /\ t.userId = EMPTY =>
                /\ \A p \in AllPaths : OwnerAxis(p) = InitAxis
                /\ GroupAxis(t.filename) = PrincipalOf(t.groupId)
           /\ t.groupId = EMPTY =>
                /\ \A p \in AllPaths : GroupAxis(p) = InitAxis
                /\ OwnerAxis(t.filename) = PrincipalOf(t.userId)

(***************************************************************************)
(* Properties of SetFileTime / GetFileTime, checked under SpecTime.        *)
(***************************************************************************)
\* the SetFileTime call has returned (its arguments and the stamps of the
\* file before it are still held)
TimeDone == tm.pc \in {"done", "got"}
\* the call performed its native write
TimeWrote == tm.writes > tm.preWrites

\* the tick of the file system of a variant, in nanoseconds
Precision(v) == IF v = "linux" THEN 1 ELSE 100
\* the instant t as the file system of variant v can hold it
Truncated(v, t) == Instant(t.ns - (t.ns % Precision(v)))

(***************************************************************************)
(* C11: a SetFileTime call with accessTime and modificationTime both       *)
(* absent, whatever creationTime is, performs zero native writes and       *)
(* leaves every stamp of the file unchanged.                               *)
(***************************************************************************)
C11_BothAbsentNoWrite ==
  ( /\ tm.variant \in TripleVariants /\ TimeDone
    /\ IsZero(tm.argA) /\ IsZero(tm.argM) )
  => /\ tm.writes = tm.preWrites
     /\ tm.file = tm.pre

(***************************************************************************)
(* C12: after a SetFileTime call that performed its native write, every    *)
(* field passed as absent (access, modification, and creation where the    *)
(* platform writes it) has the value the file had before the call.         *)
(***************************************************************************)
C12_AbsentFieldsKeepValue ==
  ( tm.variant \in TripleVariants /\ TimeDone /\ TimeWrote )
  => /\ IsZero(tm.argA) => tm.file.atime = tm.pre.atime
     /\ IsZero(tm.argM) => tm.file.mtime = tm.pre.mtime
     /\ (tm.variant = "windows" /\ IsZero(tm.argC)) => tm.file.ctime = tm.pre.ctime

(***************************************************************************)
(* C13: accessTime absent and modificationTime present: after a successful *)
(* SetFileTime the access time of the file is its value before the call    *)
(* and its modification time is the supplied value.  As stated (the exact  *)
(* supplied value) this fails on windows, whose stamps are 100 ns ticks;   *)
(* it holds for the supplied value truncated to the tick of the platform.  *)
(***************************************************************************)
C13_Case ==
  /\ tm.variant \in TripleVariants /\ TimeDone /\ tm.result = OK
  /\ IsZero(tm.argA) /\ ~IsZero(tm.argM)

C13_ExactModification ==
  C13_Case => /\ tm.file.atime = tm.pre.atime
              /\ GetFileTime(tm.variant, tm.file).m = tm.argM

C13_ModificationAtPrecision ==
  C13_Case => /\ tm.file.atime = tm.pre.atime
              /\ GetFileTime(tm.variant, tm.file).m = Truncated(tm.variant, tm.argM)

C13_Witness ==
  /\ C13_Case /\ tm.variant = "windows" /\ TimeWrote
  /\ tm.file.mtime # tm.pre.mtime

(***************************************************************************)
(* C14: round trip: SetFileTime with every time argument present, then     *)
(* GetFileTime on the same file, returns the written access and            *)
(* modification times at the precision of the platform, and the written    *)
(* creation time on the variants that set it (the windows ones).           *)
(***************************************************************************)
C14_RoundTrip ==
  ( /\ tm.pc = "got" /\ tm.result = OK
    /\ ~IsZero(tm.argM) /\ ~IsZero(tm.argC)
    /\ tm.variant \in TripleVariants => ~IsZero(tm.argA) )
  => /\ tm.got.m = Truncated(tm.variant, tm.argM)
     /\ tm.variant \in TripleVariants => tm.got.a = Truncated(tm.variant, tm.argA)
     /\ tm.variant # "linux" => tm.got.c = Truncated(tm.variant, tm.argC)

(***************************************************************************)
(* C15: partial failure of the walk: when Perform fails on the target or   *)
(* on an ancestor, SetFileUserGroup stops there and returns that error;    *)
(* the paths it applied earlier in the call stay applied and marked, and   *)
(* the call neither applies nor marks any directory above the failing      *)
(* path.                                                                   *)
(***************************************************************************)
\* the directories above p, its anchor included
Above(p) == DirClosure(p) \ {p}

C15_PartialFailureStops ==
  platform = "windows" =>
    \A c \in Callers :
      LET t == th[c]
          fp == FailedPath(c)
      IN  (Done(c) /\ (t.failedNative \/ FailedInPerform(c, fp))) =>
            /\ t.result \in {PrivilegeError, NativeError}
            /\ t.failedNative => t.result = NativeError
            /\ (t.touched \cup t.marked) \cap Above(fp) = {}
            /\ t.marked \subseteq ProcessedPathSet
            /\ \A q \in t.touched \ {fp} :
                 /\ q \in mutated /\ q \in ProcessedPathSet
                 /\ t.uidSid # NIL_SID => owner[q] = t.uidSid

\* a call applied its target, failed on the parent directory, and left the
\* directory above unmarked
C15_Witness ==
  /\ platform = "windows"
  /\ \E c \in Callers :
       /\ Done(c) /\ th[c].failedNative /\ th[c].result = NativeError
       /\ th[c].filename = SiblingD /\ FailedPath(c) = Dir(SiblingD)
       /\ SiblingD \in th[c].touched /\ SiblingD \in mutated
       /\ owner[SiblingD] = th[c].uidSid /\ th[c].uidSid # NIL_SID
       /\ Dir(Dir(SiblingD)) \notin ProcessedPathSet

(***************************************************************************)
(* C16: after Perform succeeded on a path (principal model), the DACL of   *)
(* the path holds every entry it held before plus one full-control grant   *)
(* for the new owner, and is written back unprotected.                     *)
(***************************************************************************)
OwnerGrant(sid) == [kind |-> "allow", sid |-> sid, mask |-> "full"]

C16_DaclGainsOwnerGrant ==
  platform = "windows" =>
    \A c \in Callers :
      (Done(c) /\ th[c].result = OK /\ th[c].uidSid # NIL_SID) =>
        \A p \in th[c].touched :
          /\ INIT_ACE \in dacl[p]
          /\ OwnerGrant(th[c].uidSid) \in dacl[p]
          /\ ~daclProtected[p]

(***************************************************************************)
(* C17: whenever SetFileUserGroup(path, ownerId, groupId) with a non-empty *)
(* ownerId returns success, the owner of path is at that moment the        *)
(* principal denoted by ownerId, whatever calls were made before.          *)
(***************************************************************************)
C17_SuccessMeansOwnerSet ==
  [][ \A c \in Callers :
        ( /\ ~Done(c) /\ Done(c)'
          /\ th'[c].result = OK /\ th[c].userId # EMPTY
          /\ faults' = 0 )
        => OwnerAxis(th[c].filename)' = PrincipalOf(th[c].userId) ]_vars

(***************************************************************************)
(* C18: the gate lock is held for the whole of Perform: at most one        *)
(* ownership/ACL application is in flight at any time, and a caller that   *)
(* finds its path already processed does so while no application is in     *)
(* progress (the first application on the path has finished).              *)
(***************************************************************************)
\* the caller is between the marking of line 54 and the return of Perform
InFlight(c) == th[c].pc \in {"p_enable", "p_owner", "p_getdacl", "p_setdacl"}
\* the caller is inside Perform, past m.metadataLock.Lock()
InPerform(c) == th[c].pc \in {"p_check", "p_mark"} \/ InFlight(c)

C18_GateHeldForApplication ==
  platform = "windows" =>
    \A c \in Callers :
      InPerform(c) =>
        /\ metadataLock[th[c].mgr] = c
        /\ \A d \in Callers \ {c} : ~InPerform(d)

\* a caller holds the gate and finds its path processed by the other
\* caller, which has left Perform on that path
C18_Witness ==
  /\ platform = "windows"
  /\ \E c, d \in Callers :
       /\ c # d
       /\ th[c].pc = "p_check"
       /\ AlreadyProcessed(th[c].mgr, PerformArg(th[c]))
       /\ PerformArg(th[c]) \in th[d].marked
       /\ ~InPerform(d) /\ ~Done(d)

(***************************************************************************)
(* C19: under every interleaving of concurrent first calls of              *)
(* GetMetadataManager exactly one MetadataManager (one processed-path map, *)
(* one gate lock) is ever created, and every caller receives that          *)
(* instance.                                                               *)
(***************************************************************************)
\* the first manager allocated in a run
FirstManager == 1

C19_OneManager ==
  platform = "windows" =>
    /\ metadataManager \in {NoManager, FirstManager}
    /\ \A m \in Managers \ {FirstManager} :
         processedFiles[m] = {} /\ metadataLock[m] = NoCaller
    /\ \A c \in Callers :
         /\ th[c].mgr \in {NoManager, FirstManager}
         /\ th[c].mgr # NoManager => th[c].mgr = metadataManager

\* a caller whose first check saw nil holds the singleton lock and finds
\* the manager the other caller created and received
C19_Witness ==
  /\ platform = "windows"
  /\ \E c, d \in Callers :
       /\ c # d
       /\ th[c].pc = "gm_init" /\ metadataManager = FirstManager
       /\ th[d].mgr = FirstManager

(***************************************************************************)
(* C20: every SetFileUserGroup call eventually returns (success or error): *)
(* in particular no call that has started is ended in any other way than   *)
(* by its return.                                                          *)
(***************************************************************************)
\* the call was cut off by the end of the process
Lost(c) == th[c].pc = "crashed"

C20_EveryCallReturns == \A c \in Callers : ~Lost(c)

====
